---- MODULE Spec2Model ----
(* State-machine model of the DataTable and InputField React components.    *)
(* Every event handler is one atomic action: React runs a handler against   *)
(* the state of the last render and re-renders before the next user event.  *)
EXTENDS Integers, Sequences, FiniteSets, TLC

VARIABLES
    \* ---- DataTable props (owned by the caller) ----
    data,                 \* data: T[]
    loading,              \* loading?: boolean
    selectable,           \* selectable?: boolean
    selectMode,           \* selectMode?: 'single' | 'multiple'
    selectedRowKeys,      \* selectedRowKeys?: (string|number)[]  (given / keys)
    onRowSelectGiven,     \* whether the caller passed onRowSelect
    onSortGiven,          \* whether the caller passed onSort
    \* ---- DataTable state ----
    sortConfig,           \* useState: {key, direction} | null
    internalSelectedKeys, \* useState: (string|number)[]
    \* ---- observation of the last handled event ----
    ev,                   \* the last event: [op, arg]
    onSortCalls,          \* calls of onSort made by the last event
    onRowSelectCalls,     \* calls of onRowSelect made by the last event
    \* ---- InputField props (owned by the caller) ----
    value,                \* value?: string  (given / v)
    defaultValue,         \* defaultValue?: string  (given / v)
    ref,                  \* the forwarded ref: "none", "object" or "callback"
    showClearButton,      \* showClearButton?: boolean
    disabled,             \* disabled?: boolean
    fieldLoading,         \* loading?: boolean
    onChangeGiven,        \* whether the caller passed onChange
    onClearGiven,         \* whether the caller passed onClear
    \* ---- InputField state ----
    internalValue,        \* useState: string
    effectPending,        \* the useEffect on [value, isControlled] is scheduled
    focus,                \* the focused element: "input", "clearButton", "body"
    onChangeCalls,        \* e.target.value of the onChange calls of the last event
    onClearCalls,         \* number of onClear calls of the last event
    \* ---- InputField hint props (owned by the caller) ----
    invalid,              \* invalid?: boolean
    errorMessage,         \* errorMessage?: string  (given / v)
    helperText,           \* helperText?: string  (given / v)
    \* ---- App state ----
    query,                \* useState: string
    appliedQuery,         \* useState: string
    isLoading,            \* useState: boolean
    timers,               \* pending window.setTimeout callbacks: the q each captured
    submitDue             \* the browser is about to dispatch the form's submit event

tableState == <<data, loading, selectable, selectMode, selectedRowKeys,
                onRowSelectGiven, onSortGiven, sortConfig, internalSelectedKeys,
                onSortCalls, onRowSelectCalls>>

tableVars == <<tableState, ev>>

fieldVars == <<value, defaultValue, ref, showClearButton, disabled, fieldLoading,
               onChangeGiven, onClearGiven, internalValue, effectPending, focus,
               onChangeCalls, onClearCalls>>

hintVars == <<invalid, errorMessage, helperText>>

appVars == <<query, appliedQuery, isLoading, timers, submitDue>>

vars == <<tableVars, fieldVars, hintVars, appVars>>

-----------------------------------------------------------------------------
(* Bounds *)

\* largest number of rows the caller passes in the data prop
MaxRows == 2

\* longest data array whose displayed order is checked
MaxSortLen == 5

\* largest number stored in a numeric cell
MaxNum == 3

\* longest text typed into the input field
MaxText == 2

-----------------------------------------------------------------------------
(* Cell values: null/undefined, a number, or a string (a sequence of        *)
(* collation ranks).  All three shapes carry the same record fields.        *)

NullV == [t |-> "null", n |-> 0, s |-> <<>>]
Num(n) == [t |-> "num", n |-> n, s |-> <<>>]
Str(s) == [t |-> "str", n |-> 0, s |-> s]

IsNull(v) == v.t = "null"

\* the strings of the model: "", "a", "b", "ab" written as rank sequences
\* (a digit d has rank d, the letter a rank 10, b rank 11)
ChA == 10
ChB == 11
Strings == {<<>>, <<ChA>>, <<ChB>>, <<ChA, ChB>>}

NumValues == {Num(n) : n \in 1..MaxNum}
StrValues == {Str(s) : s \in Strings}

RECURSIVE Digits(_)
\* String(n) for a number n >= 0: its decimal digits
Digits(n) == IF n < 10 THEN <<n>> ELSE Digits(n \div 10) \o <<n % 10>>

\* String(v) for a non-null cell
ToStr(v) == IF v.t = "num" THEN Digits(v.n) ELSE v.s

RECURSIVE localeCompare(_, _)
\* a.localeCompare(b): negative, zero or positive, rank by rank
localeCompare(a, b) ==
    IF a = <<>> /\ b = <<>> THEN 0
    ELSE IF a = <<>> THEN -1
    ELSE IF b = <<>> THEN 1
    ELSE IF Head(a) < Head(b) THEN -1
    ELSE IF Head(a) > Head(b) THEN 1
    ELSE localeCompare(Tail(a), Tail(b))

-----------------------------------------------------------------------------
(* Rows and columns *)

NoSort == [key |-> "", direction |-> "none"]

\* column descriptors of the modelled table
Columns == <<
    [key |-> "age",   dataIndex |-> "age",  sortable |-> TRUE],
    [key |-> "name",  dataIndex |-> "name", sortable |-> TRUE],
    [key |-> "label", dataIndex |-> "name", sortable |-> TRUE],
    [key |-> "id",    dataIndex |-> "id",   sortable |-> FALSE] >>

ColIdx == DOMAIN Columns

\* row[f]: undefined (null) when the row has no field f
Field(row, f) ==
    IF f = "id" THEN Num(row.id)
    ELSE IF f = "age" THEN row.age
    ELSE IF f = "name" THEN row.name
    ELSE NullV

\* the rows the caller draws its data prop from; identity keys are unique
RowKeys == {1, 2, 3}
Users == [k \in RowKeys |->
            CASE k = 1 -> [id |-> 1, age |-> Num(3), name |-> Str(<<ChB>>)]
              [] k = 2 -> [id |-> 2, age |-> NullV,  name |-> Str(<<ChA>>)]
              [] k = 3 -> [id |-> 3, age |-> Num(1), name |-> Str(<<ChA>>)]]

RECURSIVE SeqsNoDup(_, _)
\* the sequences of distinct elements of S of length at most n
SeqsNoDup(S, n) ==
    IF n = 0 THEN {<<>>}
    ELSE LET shorter == SeqsNoDup(S, n - 1)
             longer == {Append(q, x) : q \in shorter, x \in S}
         IN shorter \cup
            {q \in longer : \A i, j \in DOMAIN q : i < j => q[i] # q[j]}

Range(q) == {q[i] : i \in DOMAIN q}

\* data.map((r) => r[rowKey])
RowKeysOf(d) == [i \in DOMAIN d |-> d[i].id]


\* the data props the caller passes: rows of Users in any order
DataSets == {[i \in DOMAIN q |-> Users[q[i]]] : q \in SeqsNoDup(RowKeys, MaxRows)}

\* the selectedRowKeys arrays a controlling caller passes
CallerKeys == {<<>>, <<1>>, <<2>>, <<3>>, <<1, 2>>, <<1, 3>>, <<2, 3>>, <<1, 2, 3>>}

NotGiven == [given |-> FALSE, keys |-> <<>>]

-----------------------------------------------------------------------------
(* Sorting *)

\* a comparator that puts null first whatever the direction
SortCompareNullFirst(a, b, key, direction) ==
    LET aVal == Field(a, key)
        bVal == Field(b, key)
    IN IF IsNull(aVal) /\ IsNull(bVal) THEN 0
       ELSE IF IsNull(aVal) THEN -1
       ELSE IF IsNull(bVal) THEN 1
       ELSE IF aVal.t = "num" /\ bVal.t = "num"
            THEN (IF direction = "asc" THEN aVal.n - bVal.n ELSE bVal.n - aVal.n)
       ELSE IF direction = "asc"
            THEN localeCompare(ToStr(aVal), ToStr(bVal))
            ELSE localeCompare(ToStr(bVal), ToStr(aVal))

\* the comparator passed to sort()
SortCompare(a, b, key, direction) ==
    LET aVal == Field(a, key)
        bVal == Field(b, key)
    IN IF IsNull(aVal) /\ IsNull(bVal) THEN 0
       ELSE IF IsNull(aVal) THEN (IF direction = "asc" THEN -1 ELSE 1)
       ELSE IF IsNull(bVal) THEN (IF direction = "asc" THEN 1 ELSE -1)
       ELSE IF aVal.t = "num" /\ bVal.t = "num"
            THEN (IF direction = "asc" THEN aVal.n - bVal.n ELSE bVal.n - aVal.n)
       ELSE IF direction = "asc"
            THEN localeCompare(ToStr(aVal), ToStr(bVal))
            ELSE localeCompare(ToStr(bVal), ToStr(aVal))

RECURSIVE InsertSorted(_, _, _, _)
\* x is placed after the last element that does not compare greater than it
InsertSorted(sorted, x, key, direction) ==
    IF sorted = <<>> THEN <<x>>
    ELSE LET last == sorted[Len(sorted)]
             front == SubSeq(sorted, 1, Len(sorted) - 1)
         IN IF SortCompare(last, x, key, direction) > 0
            THEN Append(InsertSorted(front, x, key, direction), last)
            ELSE Append(sorted, x)

RECURSIVE ArraySort(_, _, _)
\* [...data].sort(comparator): Array.prototype.sort is a stable sort
ArraySort(q, key, direction) ==
    IF q = <<>> THEN <<>>
    ELSE InsertSorted(ArraySort(SubSeq(q, 1, Len(q) - 1), key, direction),
                      q[Len(q)], key, direction)

\* useMemo: the rows in displayed order
sortedData ==
    IF sortConfig = NoSort THEN data
    ELSE ArraySort(data, sortConfig.key, sortConfig.direction)

\* toggleSort that restarts the cycle instead of clearing the sort
NextSortConfigNoClear(sc, key) ==
    IF sc # NoSort /\ sc.key = key /\ sc.direction = "asc"
    THEN [key |-> key, direction |-> "desc"]
    ELSE [key |-> key, direction |-> "asc"]

\* the value of `next` computed by toggleSort for a sortable column
NextSortConfig(sc, key) ==
    IF sc # NoSort /\ sc.key = key
    THEN (IF sc.direction = "asc" THEN [key |-> key, direction |-> "desc"] ELSE NoSort)
    ELSE [key |-> key, direction |-> "asc"]

\* toggleSort that reports the state it read instead of the one it set
OnSortArgsStale(next, key) ==
    [key |-> key,
     direction |-> IF sortConfig # NoSort THEN sortConfig.direction ELSE "none"]

\* the arguments toggleSort passes to onSort
OnSortArgs(next, key) ==
    [key |-> IF next # NoSort THEN next.key ELSE key,
     direction |-> IF next # NoSort THEN next.direction ELSE "none"]

-----------------------------------------------------------------------------
(* Selection *)

selectedKeys ==
    IF selectedRowKeys.given THEN selectedRowKeys.keys ELSE internalSelectedKeys

\* toggleRow whose single mode accumulates keys as multiple mode does
ToggleRowKeysAccumulate(mode, sel, key) ==
    IF key \in Range(sel) THEN SelectSeq(sel, LAMBDA k : k # key)
    ELSE Append(sel, key)

\* the keys toggleRow passes to updateSelection
ToggleRowKeys(mode, sel, key) ==
    LET isSelected == key \in Range(sel)
    IN IF mode = "single"
       THEN (IF isSelected THEN <<>> ELSE <<key>>)
       ELSE (IF isSelected THEN SelectSeq(sel, LAMBDA k : k # key)
                           ELSE Append(sel, key))

\* the keys handleSelectAll passes to updateSelection
SelectAllKeys(checked, d) == IF checked THEN RowKeysOf(d) ELSE <<>>

\* updateSelection that treats a table with a callback as controlled
InternalAfterUpdateCallbackOwned(srk, internal, keys) ==
    IF ~srk.given /\ ~onRowSelectGiven THEN keys ELSE internal

\* internalSelectedKeys after updateSelection(keys)
InternalAfterUpdate(srk, internal, keys) ==
    IF ~srk.given THEN keys ELSE internal

\* updateSelection that collects the rows in displayed order
SelectionRowsDisplayed(d, keys) ==
    SelectSeq(sortedData, LAMBDA r : r.id \in Range(keys))

\* the rows updateSelection passes to onRowSelect
SelectionRows(d, keys) == SelectSeq(d, LAMBDA r : r.id \in Range(keys))

\* a render function that tests for emptiness before loading
RenderModeEmptyFirst ==
    IF Len(data) = 0 THEN "empty"
    ELSE IF loading THEN "loading"
    ELSE "populated"

\* the branch of the render function that returns
RenderMode ==
    IF loading THEN "loading"
    ELSE IF Len(data) = 0 THEN "empty"
    ELSE "populated"

\* the checked state of the header checkbox
allSelected == Len(data) > 0 /\ Len(selectedKeys) = Len(data)


-----------------------------------------------------------------------------
(* DataTable: initial state and event handlers *)

Event(op, arg) == [op |-> op, arg |-> arg]

\* the hint paragraph and the demo screen while another component is examined
HintIdle ==
    /\ invalid = FALSE
    /\ errorMessage = [given |-> FALSE, v |-> <<>>]
    /\ helperText = [given |-> FALSE, v |-> <<>>]

AppIdle ==
    /\ query = <<>>
    /\ appliedQuery = <<>>
    /\ isLoading = FALSE
    /\ timers = <<>>
    /\ submitDue = FALSE

\* the text field while the table is examined: mounted, untouched
FieldIdle ==
    /\ value = [given |-> FALSE, v |-> <<>>]
    /\ defaultValue = [given |-> FALSE, v |-> <<>>]
    /\ ref = "none"
    /\ showClearButton = FALSE
    /\ disabled = FALSE
    /\ fieldLoading = FALSE
    /\ onChangeGiven = FALSE
    /\ onClearGiven = FALSE
    /\ internalValue = <<>>
    /\ effectPending = FALSE
    /\ focus = "body"
    /\ onChangeCalls = <<>>
    /\ onClearCalls = 0

InitTable ==
    /\ data \in DataSets
    /\ loading = FALSE
    /\ selectable \in BOOLEAN
    /\ selectMode \in {"single", "multiple"}
    /\ selectedRowKeys \in {NotGiven, [given |-> TRUE, keys |-> <<>>]}
    /\ onRowSelectGiven \in BOOLEAN
    /\ onSortGiven \in BOOLEAN
    /\ sortConfig = NoSort
    /\ internalSelectedKeys = <<>>
    /\ ev = Event("init", 0)
    /\ onSortCalls = <<>>
    /\ onRowSelectCalls = <<>>
    /\ FieldIdle
    /\ HintIdle
    /\ AppIdle

\* a click on the header button of column Columns[c]
toggleSort(c) ==
    /\ RenderMode = "populated"
    /\ LET key == Columns[c].key
           sortable == Columns[c].sortable
           next == NextSortConfig(sortConfig, key)
       IN IF ~sortable
          THEN /\ sortConfig' = sortConfig
               /\ onSortCalls' = <<>>
          ELSE /\ sortConfig' = next
               /\ onSortCalls' = IF onSortGiven THEN <<OnSortArgs(next, key)>> ELSE <<>>
    /\ ev' = Event("toggleSort", c)
    /\ UNCHANGED <<hintVars, appVars>>
    /\ UNCHANGED fieldVars
    /\ onRowSelectCalls' = <<>>
    /\ UNCHANGED <<data, loading, selectable, selectMode, selectedRowKeys,
                   onRowSelectGiven, onSortGiven, internalSelectedKeys>>

updateSelection(keys) ==
    /\ internalSelectedKeys' =
          InternalAfterUpdate(selectedRowKeys, internalSelectedKeys, keys)
    /\ onRowSelectCalls' =
          IF onRowSelectGiven THEN <<SelectionRows(data, keys)>> ELSE <<>>

\* a change of the header checkbox; it is rendered only when selectable, and
\* the event carries the negation of the checked state it displays
handleSelectAll(checked) ==
    /\ RenderMode = "populated"
    /\ selectable
    /\ checked = ~allSelected
    /\ updateSelection(SelectAllKeys(checked, data))
    /\ ev' = Event("handleSelectAll", IF checked THEN 1 ELSE 0)
    /\ UNCHANGED <<hintVars, appVars>>
    /\ UNCHANGED fieldVars
    /\ onSortCalls' = <<>>
    /\ UNCHANGED <<data, loading, selectable, selectMode, selectedRowKeys,
                   onRowSelectGiven, onSortGiven, sortConfig>>

\* a click on the displayed row with identity key k, or on its checkbox
toggleRow(k) ==
    /\ RenderMode = "populated"
    /\ k \in Range(RowKeysOf(sortedData))
    /\ IF ~selectable
       THEN /\ internalSelectedKeys' = internalSelectedKeys
            /\ onRowSelectCalls' = <<>>
       ELSE updateSelection(ToggleRowKeys(selectMode, selectedKeys, k))
    /\ ev' = Event("toggleRow", k)
    /\ UNCHANGED <<hintVars, appVars>>
    /\ UNCHANGED fieldVars
    /\ onSortCalls' = <<>>
    /\ UNCHANGED <<data, loading, selectable, selectMode, selectedRowKeys,
                   onRowSelectGiven, onSortGiven, sortConfig>>

\* the caller re-renders the table with another data prop
SetData(d) ==
    /\ d # data
    /\ data' = d
    /\ ev' = Event("setData", 0)
    /\ UNCHANGED <<hintVars, appVars>>
    /\ UNCHANGED fieldVars
    /\ onSortCalls' = <<>>
    /\ onRowSelectCalls' = <<>>
    /\ UNCHANGED <<loading, selectable, selectMode, selectedRowKeys,
                   onRowSelectGiven, onSortGiven, sortConfig, internalSelectedKeys>>

\* the caller re-renders the table with the loading prop flipped
SetLoading ==
    /\ loading' = ~loading
    /\ ev' = Event("setLoading", 0)
    /\ UNCHANGED <<hintVars, appVars>>
    /\ UNCHANGED fieldVars
    /\ onSortCalls' = <<>>
    /\ onRowSelectCalls' = <<>>
    /\ UNCHANGED <<data, selectable, selectMode, selectedRowKeys,
                   onRowSelectGiven, onSortGiven, sortConfig, internalSelectedKeys>>

\* a caller that passes selectedRowKeys re-renders with another array
SetSelectedRowKeys(ks) ==
    /\ selectedRowKeys.given
    /\ ks # selectedRowKeys.keys
    /\ selectedRowKeys' = [given |-> TRUE, keys |-> ks]
    /\ ev' = Event("setSelectedRowKeys", 0)
    /\ UNCHANGED <<hintVars, appVars>>
    /\ UNCHANGED fieldVars
    /\ onSortCalls' = <<>>
    /\ onRowSelectCalls' = <<>>
    /\ UNCHANGED <<data, loading, selectable, selectMode,
                   onRowSelectGiven, onSortGiven, sortConfig, internalSelectedKeys>>

\* the data arrays whose displayed order is examined: rows keyed by
\* position, with one field ranging over null and the numbers (up to
\* MaxSortLen rows) or over null and the strings (one row fewer)
RECURSIVE SeqsOf(_, _)
SeqsOf(S, n) ==
    IF n = 0 THEN {<<>>}
    ELSE LET shorter == SeqsOf(S, n - 1)
         IN shorter \cup {Append(q, x) : q \in {r \in shorter : Len(r) = n - 1}, x \in S}

SortInputs ==
    {[i \in DOMAIN q |-> [id |-> i, age |-> q[i], name |-> NullV]] :
        q \in SeqsOf(NumValues \cup {NullV}, MaxSortLen)}
    \cup
    {[i \in DOMAIN q |-> [id |-> i, age |-> NullV, name |-> q[i]]] :
        q \in SeqsOf(StrValues \cup {NullV}, MaxSortLen - 1)}

\* a table mounted on one of the examined data arrays
InitSort ==
    /\ data \in SortInputs
    /\ loading = FALSE
    /\ selectable = FALSE
    /\ selectMode = "multiple"
    /\ selectedRowKeys = NotGiven
    /\ onRowSelectGiven = FALSE
    /\ onSortGiven = TRUE
    /\ sortConfig = NoSort
    /\ internalSelectedKeys = <<>>
    /\ ev = Event("init", 0)
    /\ onSortCalls = <<>>
    /\ onRowSelectCalls = <<>>
    /\ FieldIdle
    /\ HintIdle
    /\ AppIdle

NextSort == \E c \in ColIdx : toggleSort(c)

SpecSort == InitSort /\ [][NextSort]_vars

Init == InitTable

Next ==
    \/ \E c \in ColIdx : toggleSort(c)
    \/ \E b \in BOOLEAN : handleSelectAll(b)
    \/ \E k \in RowKeys : toggleRow(k)
    \/ \E d \in DataSets : SetData(d)
    \/ SetLoading
    \/ \E ks \in CallerKeys : SetSelectedRowKeys(ks)

Spec == Init /\ [][Next]_vars


-----------------------------------------------------------------------------
(* InputField *)

\* the texts a user or a caller produces: "", "a", "b", "aa", ...
Texts == SeqsOf({ChA, ChB}, MaxText)

Absent == [given |-> FALSE, v |-> <<>>]
Given(t) == [given |-> TRUE, v |-> t]

isControlled == value.given

\* the initial state of useState(defaultValue ?? (value ?? ''))
InitialInternalValue(val, def) ==
    IF def.given THEN def.v
    ELSE IF val.given THEN val.v
    ELSE <<>>

\* whether the clear button is rendered
ClearButtonShown ==
    showClearButton /\ internalValue # <<>> /\ ~fieldLoading /\ ~disabled

\* the focused element after handleClear ran inputRef.current?.focus():
\* the input carries the forwarded ref only, so only an object ref reaches it
FocusAfterClear(forwarded, before) ==
    IF forwarded = "object" THEN "input" ELSE before

\* the table while the text field is examined: mounted, untouched
TableIdle ==
    /\ data = <<>>
    /\ loading = FALSE
    /\ selectable = FALSE
    /\ selectMode = "multiple"
    /\ selectedRowKeys = NotGiven
    /\ onRowSelectGiven = FALSE
    /\ onSortGiven = FALSE
    /\ sortConfig = NoSort
    /\ internalSelectedKeys = <<>>
    /\ onSortCalls = <<>>
    /\ onRowSelectCalls = <<>>

InitField ==
    /\ value \in {Absent} \cup {Given(t) : t \in Texts}
    /\ defaultValue \in {Absent, Given(<<ChB>>)}
    /\ ref \in {"none", "object", "callback"}
    /\ showClearButton \in BOOLEAN
    /\ disabled \in BOOLEAN
    /\ fieldLoading = FALSE
    /\ onChangeGiven \in BOOLEAN
    /\ onClearGiven \in BOOLEAN
    /\ internalValue = InitialInternalValue(value, defaultValue)
    /\ effectPending = TRUE
    /\ focus = "body"
    /\ onChangeCalls = <<>>
    /\ onClearCalls = 0
    /\ ev = Event("init", 0)
    /\ TableIdle
    /\ HintIdle
    /\ AppIdle

fieldProps == <<value, defaultValue, ref, showClearButton, disabled, fieldLoading,
                onChangeGiven, onClearGiven>>

\* the effect on [value, isControlled] runs after the render that scheduled it
RunEffect ==
    /\ effectPending
    /\ internalValue' = IF isControlled THEN value.v ELSE internalValue
    /\ effectPending' = FALSE
    /\ ev' = Event("effect", 0)
    /\ UNCHANGED <<hintVars, appVars>>
    /\ onChangeCalls' = <<>>
    /\ onClearCalls' = 0
    /\ UNCHANGED <<fieldProps, focus, tableState>>

\* the user edits the text of the enabled input to t
handleChange(t) ==
    /\ ~effectPending
    /\ ~(disabled \/ fieldLoading)
    /\ t # internalValue
    /\ internalValue' = IF ~isControlled THEN t ELSE internalValue
    /\ onChangeCalls' = IF onChangeGiven THEN <<t>> ELSE <<>>
    /\ onClearCalls' = 0
    /\ focus' = "input"
    /\ ev' = Event("handleChange", 0)
    /\ UNCHANGED <<hintVars, appVars>>
    /\ UNCHANGED <<fieldProps, effectPending, tableState>>

\* the user clicks the clear button.  The click moves the focus to the
\* button or, in browsers that do not focus a clicked button, off the input;
\* an element that is no longer rendered loses the focus to the body.
handleClear ==
    /\ ~effectPending
    /\ ClearButtonShown
    /\ internalValue' = IF ~isControlled THEN <<>> ELSE internalValue
    /\ onChangeCalls' = IF onChangeGiven THEN << <<>> >> ELSE <<>>
    /\ onClearCalls' = IF onClearGiven THEN 1 ELSE 0
    /\ \E clicked \in {"clearButton", "body"} :
          LET after == FocusAfterClear(ref, clicked)
          IN focus' = IF after = "clearButton" /\ internalValue' = <<>>
                      THEN "body" ELSE after
    /\ ev' = Event("handleClear", 0)
    /\ UNCHANGED <<hintVars, appVars>>
    /\ UNCHANGED <<fieldProps, effectPending, tableState>>

\* a controlling caller re-renders the field with another value
SetValue(t) ==
    /\ isControlled
    /\ t # value.v
    /\ value' = Given(t)
    /\ effectPending' = TRUE
    /\ ev' = Event("setValue", 0)
    /\ UNCHANGED <<hintVars, appVars>>
    /\ onChangeCalls' = <<>>
    /\ onClearCalls' = 0
    /\ UNCHANGED <<defaultValue, ref, showClearButton, disabled, fieldLoading,
                   onChangeGiven, onClearGiven, internalValue, focus, tableState>>

\* the caller re-renders the field with the loading prop flipped
SetFieldLoading ==
    /\ fieldLoading' = ~fieldLoading
    /\ focus' = IF fieldLoading' THEN "body" ELSE focus
    /\ ev' = Event("setFieldLoading", 0)
    /\ UNCHANGED <<hintVars, appVars>>
    /\ onChangeCalls' = <<>>
    /\ onClearCalls' = 0
    /\ UNCHANGED <<value, defaultValue, ref, showClearButton, disabled,
                   onChangeGiven, onClearGiven, internalValue, effectPending,
                   tableState>>

NextField ==
    \/ RunEffect
    \/ \E t \in Texts : handleChange(t)
    \/ handleClear
    \/ \E t \in Texts : SetValue(t)
    \/ SetFieldLoading

SpecField == InitField /\ [][NextField]_vars

\* C10: an uncontrolled field with no initial value starts empty, and a
\* clear of its non-empty text sets the value to "", calls onChange with an
\* empty value, calls onClear, and leaves the focus on the input, whatever
\* ref the caller forwards.
C10_ClearRefocuses ==
    /\ (~value.given /\ ~defaultValue.given) => internalValue = <<>>
    /\ [][(ev'.op = "handleClear" /\ ~value.given /\ ~defaultValue.given)
            => /\ internalValue # <<>>
               /\ internalValue' = <<>>
               /\ onChangeGiven => onChangeCalls' = << <<>> >>
               /\ onClearGiven => onClearCalls' = 1
               /\ focus' = "input"]_vars

\* the value attribute of the rendered <input>
RenderedValue == internalValue

\* C11: in controlled mode every render of the field displays the value
\* the caller currently supplies, on the first render (also when a
\* defaultValue is supplied too) and after every keystroke, clear and
\* update of the value prop.
C11_ControlledMirrors ==
    isControlled => RenderedValue = value.v

-----------------------------------------------------------------------------
(* InputField: helper / error paragraph *)

\* a string prop in a boolean context: undefined and '' are falsy
Truthy(p) == p.given /\ p.v # <<>>

\* what React renders for a string-or-undefined child
ChildText(p) == IF p.given THEN p.v ELSE <<>>

\* whether the <p> is rendered: (helperText || errorMessage) && ...
HintRendered == Truthy(helperText) \/ Truthy(errorMessage)

\* the text of the paragraph: {invalid ? errorMessage : helperText}
HintText ==
    IF ~HintRendered THEN <<>>
    ELSE IF invalid THEN ChildText(errorMessage)
    ELSE ChildText(helperText)

InitHint ==
    /\ invalid \in BOOLEAN
    /\ errorMessage \in {Absent} \cup {Given(t) : t \in Texts}
    /\ helperText \in {Absent} \cup {Given(t) : t \in Texts}
    /\ ev = Event("init", 0)
    /\ TableIdle
    /\ FieldIdle
    /\ AppIdle

\* the caller re-renders the field with the invalid prop flipped
SetInvalid ==
    /\ invalid' = ~invalid
    /\ ev' = Event("setInvalid", 0)
    /\ UNCHANGED <<errorMessage, helperText, tableState, fieldVars, appVars>>

\* the caller re-renders the field with another errorMessage
SetErrorMessage(p) ==
    /\ p # errorMessage
    /\ errorMessage' = p
    /\ ev' = Event("setErrorMessage", 0)
    /\ UNCHANGED <<invalid, helperText, tableState, fieldVars, appVars>>

\* the caller re-renders the field with another helperText
SetHelperText(p) ==
    /\ p # helperText
    /\ helperText' = p
    /\ ev' = Event("setHelperText", 0)
    /\ UNCHANGED <<invalid, errorMessage, tableState, fieldVars, appVars>>

NextHint ==
    \/ SetInvalid
    \/ \E p \in {Absent} \cup {Given(t) : t \in Texts} : SetErrorMessage(p)
    \/ \E p \in {Absent} \cup {Given(t) : t \in Texts} : SetHelperText(p)

SpecHint == InitHint /\ [][NextHint]_vars

\* the text the display rule prescribes: the error message when invalid and
\* an error message is present, otherwise the helper text if there is one
ExpectedHint ==
    IF invalid /\ Truthy(errorMessage) THEN errorMessage.v
    ELSE IF Truthy(helperText) THEN helperText.v
    ELSE <<>>

\* C12: the field displays the error message exactly when invalid is set
\* and an error message is present, and otherwise the helper text whenever
\* one is supplied, also when invalid is set without an error message.
C12_HintDisplay == HintText = ExpectedHint

-----------------------------------------------------------------------------
(* App: the search form of the demo screen *)

\* a handleSearch without the isLoading guard
SearchIgnoredNever(l) == FALSE

\* handleSearch and resetSearch return at once while a search is loading
SearchIgnored(l) == l

\* handleSearch(): every caller passes no term, so q is the current query
handleSearch ==
    IF SearchIgnored(isLoading)
    THEN UNCHANGED <<isLoading, timers>>
    ELSE /\ isLoading' = TRUE
         /\ timers' = Append(timers, query)

InitApp ==
    /\ AppIdle
    /\ ev = Event("init", 0)
    /\ TableIdle
    /\ FieldIdle
    /\ HintIdle

\* Enter is pressed in the search input (never disabled): onEnter calls
\* handleSearch, then the browser goes on to the form's implicit submission
PressEnter ==
    /\ ~submitDue
    /\ handleSearch
    /\ submitDue' = TRUE
    /\ ev' = Event("enter", 0)
    /\ UNCHANGED <<query, appliedQuery, tableState, fieldVars, hintVars>>

\* the Search button (disabled while loading) is clicked: onClick calls
\* handleSearch, then the browser goes on to submit the form
ClickSearch ==
    /\ ~submitDue
    /\ ~isLoading
    /\ handleSearch
    /\ submitDue' = TRUE
    /\ ev' = Event("click", 0)
    /\ UNCHANGED <<query, appliedQuery, tableState, fieldVars, hintVars>>

\* the submit event that follows reaches the form: onSubmit calls handleSearch
SubmitForm ==
    /\ submitDue
    /\ handleSearch
    /\ submitDue' = FALSE
    /\ ev' = Event("submit", 0)
    /\ UNCHANGED <<query, appliedQuery, tableState, fieldVars, hintVars>>

\* the browser submits nothing because the submit button is disabled by now
SkipSubmit ==
    /\ submitDue
    /\ isLoading
    /\ submitDue' = FALSE
    /\ ev' = Event("skipSubmit", 0)
    /\ UNCHANGED <<query, appliedQuery, isLoading, timers,
                   tableState, fieldVars, hintVars>>

\* the user edits or clears the search input: setQuery(e.target.value)
SetQuery(t) ==
    /\ ~submitDue
    /\ t # query
    /\ query' = t
    /\ ev' = Event("setQuery", 0)
    /\ UNCHANGED <<appliedQuery, isLoading, timers, submitDue,
                   tableState, fieldVars, hintVars>>

\* the Reset button (disabled while loading) is clicked
resetSearch ==
    /\ ~submitDue
    /\ ~isLoading
    /\ IF SearchIgnored(isLoading)
       THEN UNCHANGED <<query, appliedQuery>>
       ELSE /\ query' = <<>>
            /\ appliedQuery' = <<>>
    /\ ev' = Event("reset", 0)
    /\ UNCHANGED <<isLoading, timers, submitDue, tableState, fieldVars, hintVars>>

\* the oldest pending timer expires and runs its callback
TimerFires ==
    /\ ~submitDue
    /\ timers # <<>>
    /\ appliedQuery' = Head(timers)
    /\ isLoading' = FALSE
    /\ timers' = Tail(timers)
    /\ ev' = Event("timer", 0)
    /\ UNCHANGED <<query, submitDue, tableState, fieldVars, hintVars>>

NextApp ==
    \/ PressEnter
    \/ ClickSearch
    \/ SubmitForm
    \/ SkipSubmit
    \/ \E t \in Texts : SetQuery(t)
    \/ resetSearch
    \/ TimerFires

\* nothing cancels a timer, and the event loop runs its callback however
\* many user events arrive (it only waits for the submit event that follows
\* a click or an Enter press, which is dispatched at once)
SpecApp ==
    /\ InitApp
    /\ [][NextApp]_vars
    /\ SF_vars(TimerFires)
    /\ WF_vars(SubmitForm \/ SkipSubmit)

SearchOps == {"enter", "click", "submit"}

\* C13: at most one search timer is pending at any time; a search invoked
\* while one is pending starts no timer and changes no state; a search
\* invoked otherwise captures the current query; and every started timer
\* eventually fires, applying the captured query and clearing the loading
\* flag.
C13_OneSearchTimer ==
    /\ [](Len(timers) <= 1)
    /\ [][(ev'.op \in SearchOps /\ timers # <<>>)
            => UNCHANGED <<query, appliedQuery, isLoading, timers>>]_vars
    /\ [][(ev'.op \in SearchOps /\ timers = <<>>)
            => (isLoading' /\ timers' = <<query>>)]_vars
    /\ \A q \in Texts :
          (timers = <<q>>) ~> (ev.op = "timer" /\ appliedQuery = q /\ ~isLoading)

\* a timer has fired and applied the query captured before a later edit
C13_Witness ==
    /\ ev.op = "timer"
    /\ ~isLoading /\ timers = <<>>
    /\ appliedQuery # <<>>
    /\ appliedQuery # query

\* Enter was pressed while a search was pending
C13_WitnessIgnored ==
    /\ ev.op = "enter"
    /\ isLoading
    /\ Len(timers) = 1
    /\ timers[1] # query

-----------------------------------------------------------------------------
(* Sort state *)

SortOf(key, direction) == [key |-> key, direction |-> direction]

\* the sort state the lifecycle prescribes after a click on column col
ExpectedSort(s, col) ==
    IF ~col.sortable THEN s
    ELSE IF s = NoSort \/ s.key # col.key THEN SortOf(col.key, "asc")
    ELSE IF s.direction = "asc" THEN SortOf(col.key, "desc")
    ELSE NoSort

\* C1: the sort state starts at none, and every header click on column c
\* takes it to the state the cycle prescribes: ascending on c from none or
\* from another column, ascending -> descending -> none on c itself, and no
\* change when c is not sortable.
C1_SortCycle ==
    /\ sortConfig = NoSort
    /\ [][ev'.op = "toggleSort"
            => sortConfig' = ExpectedSort(sortConfig, Columns[ev'.arg])]_vars

\* a third click on the same sortable column has cleared the sort
C1_Witness ==
    /\ ev.op = "toggleSort"
    /\ Columns[ev.arg].sortable
    /\ sortConfig = NoSort

\* C2 as stated: a click on a sortable header fires exactly one onSort call
\* carrying the new sort state, none for key and direction when the click
\* clears the sort; a click on a non-sortable header fires none.
C2_NotifiesNewState ==
    [][(ev'.op = "toggleSort" /\ onSortGiven)
        => IF Columns[ev'.arg].sortable
           THEN onSortCalls' = <<sortConfig'>>
           ELSE onSortCalls' = <<>>]_vars

\* C2 amended: a click on a sortable header fires exactly one onSort call:
\* the new key and direction when a sort is active, and the clicked column's
\* key with direction none when the click clears the sort; a click on a
\* non-sortable header fires none.
C2_NotifiesClickedKey ==
    [][(ev'.op = "toggleSort" /\ onSortGiven)
        => IF Columns[ev'.arg].sortable
           THEN onSortCalls' =
                  <<IF sortConfig' # NoSort THEN sortConfig'
                    ELSE SortOf(Columns[ev'.arg].key, "none")>>
           ELSE onSortCalls' = <<>>]_vars

\* the click that clears the sort has reported the clicked column's key
C2_Witness ==
    /\ ev.op = "toggleSort"
    /\ onSortGiven
    /\ sortConfig = NoSort
    /\ onSortCalls = <<SortOf(Columns[ev.arg].key, "none")>>

-----------------------------------------------------------------------------
(* Displayed order *)

\* the position of a row in d (identity keys are unique)
PosIn(d, row) == CHOOSE i \in DOMAIN d : d[i] = row

\* the order of two non-null values of one type
ValueLess(x, y) ==
    IF x.t = "num" /\ y.t = "num" THEN x.n < y.n
    ELSE localeCompare(ToStr(x), ToStr(y)) < 0

\* row r may be displayed before row q under a sort on field f
MayPrecede(r, q, d, f, direction) ==
    LET x == Field(r, f)
        y == Field(q, f)
        kept == PosIn(d, r) < PosIn(d, q)
    IN IF IsNull(x) /\ IsNull(y) THEN kept
       ELSE IF IsNull(x) THEN direction = "asc"
       ELSE IF IsNull(y) THEN direction = "desc"
       ELSE IF x = y THEN kept
       ELSE IF direction = "asc" THEN ValueLess(x, y) ELSE ValueLess(y, x)

\* C3: with no active sort the rows are displayed in data order; under an
\* active sort they are the rows of data, null/undefined first (ascending)
\* or last (descending), the others in increasing (decreasing) value order,
\* and rows that compare equal in their original relative order.
C3_DisplayedOrder ==
    LET shown == sortedData
    IN IF sortConfig = NoSort THEN shown = data
       ELSE /\ Len(shown) = Len(data)
            /\ Range(shown) = Range(data)
            /\ \A i, j \in DOMAIN shown :
                  i < j => MayPrecede(shown[i], shown[j], data,
                                      sortConfig.key, sortConfig.direction)

AgesOf(d) == [i \in DOMAIN d |-> d[i].age]

\* age = [null, 3, 1, null, 2] sorted ascending: both nulls, then 1, 2, 3
C3_Witness ==
    /\ AgesOf(data) = <<NullV, Num(3), Num(1), NullV, Num(2)>>
    /\ sortConfig = SortOf("age", "asc")
    /\ RowKeysOf(sortedData) = <<1, 4, 3, 5, 2>>

\* the same array sorted descending: 3, 2, 1, then both nulls
C3_WitnessDesc ==
    /\ AgesOf(data) = <<NullV, Num(3), Num(1), NullV, Num(2)>>
    /\ sortConfig = SortOf("age", "desc")
    /\ RowKeysOf(sortedData) = <<2, 5, 3, 1, 4>>

\* the dataIndex of the column whose key is k
DataIndexOf(k) ==
    LET c == CHOOSE i \in ColIdx : Columns[i].key = k
    IN Columns[c].dataIndex

\* C14: under an active sort on column c the rows are ordered by the value
\* the column displays, row[c.dataIndex], also when c.key differs from
\* c.dataIndex.
C14_SortsByDisplayedField ==
    LET shown == sortedData
    IN sortConfig # NoSort
        => \A i, j \in DOMAIN shown :
              i < j => MayPrecede(shown[i], shown[j], data,
                                  DataIndexOf(sortConfig.key), sortConfig.direction)

-----------------------------------------------------------------------------
(* Selection *)

KeySet(q) == Range(q)

\* the selection a toggle of key k prescribes from the selection S
ExpectedToggle(mode, S, k) ==
    IF mode = "single" THEN (IF k \in S THEN {} ELSE {k})
    ELSE (IF k \in S THEN S \ {k} ELSE S \cup {k})

\* the rows of d whose key is in S, in the order of d
RowsIn(d, S) == SelectSeq(d, LAMBDA r : r.id \in S)

\* C4: in single-select mode a selectable table that owns its selection
\* never holds more than one selected key.
C4_SingleAtMostOne ==
    (selectable /\ selectMode = "single" /\ ~selectedRowKeys.given)
        => Cardinality(KeySet(internalSelectedKeys)) <= 1

\* C5: toggling the row with key k on a selectable table replaces the
\* selection S by {} or {k} in single mode and by S \ {k} or S + {k} in
\* multiple mode: the table that owns its selection stores that set, and
\* the callback, when given, receives the rows of data in that set.
C5_ToggleRow ==
    [][(ev'.op = "toggleRow" /\ selectable)
        => LET expected == ExpectedToggle(selectMode, KeySet(selectedKeys), ev'.arg)
           IN /\ ~selectedRowKeys.given => KeySet(internalSelectedKeys') = expected
              /\ onRowSelectGiven => onRowSelectCalls' = <<RowsIn(data, expected)>>]_vars

\* multiple mode, A then B then A: a toggle of A has left exactly {B}
C5_Witness ==
    /\ ev = Event("toggleRow", 1)
    /\ selectable /\ selectMode = "multiple" /\ ~selectedRowKeys.given
    /\ internalSelectedKeys = <<2>>
    /\ onRowSelectCalls = <<RowsIn(data, {2})>>

\* single mode, A then B: a toggle of B has replaced {A} by {B}
C5_WitnessSingle ==
    /\ ev = Event("toggleRow", 2)
    /\ selectable /\ selectMode = "single" /\ ~selectedRowKeys.given
    /\ internalSelectedKeys = <<2>>
    /\ Len(data) = 2

\* C6: checking the header checkbox selects exactly the keys of the data
\* prop and passes all rows of data, in data order whatever the active
\* sort, to the callback once; unchecking it empties the selection and
\* passes an empty row list once.
C6_SelectAll ==
    [][ev'.op = "handleSelectAll"
        => IF ev'.arg = 1
           THEN /\ ~selectedRowKeys.given
                     => KeySet(internalSelectedKeys') = KeySet(RowKeysOf(data))
                /\ onRowSelectGiven => onRowSelectCalls' = <<data>>
           ELSE /\ ~selectedRowKeys.given => internalSelectedKeys' = <<>>
                /\ onRowSelectGiven => onRowSelectCalls' = << <<>> >>]_vars

\* select-all was checked while the rows were displayed in another order
C6_Witness ==
    /\ ev = Event("handleSelectAll", 1)
    /\ sortConfig # NoSort /\ sortedData # data
    /\ ~selectedRowKeys.given
    /\ KeySet(internalSelectedKeys) = KeySet(RowKeysOf(data))
    /\ onRowSelectCalls = <<data>>

\* C7: on a populated selectable table the header checkbox is checked
\* exactly when every row of the data prop has its key in the selection.
C7_AllSelectedIndicator ==
    (RenderMode = "populated" /\ selectable)
        => (allSelected <=> \A i \in DOMAIN data : data[i].id \in KeySet(selectedKeys))

SelectionEvent == {"toggleRow", "handleSelectAll"}

\* C8 as stated: unless the caller passes both selectedRowKeys and the
\* callback, a row toggle or select-all changes the selection the rows are
\* displayed from; a given callback is called on every such event.
C8_ControlledNeedsBoth ==
    [][(ev'.op \in SelectionEvent /\ selectable)
        => /\ ~(selectedRowKeys.given /\ onRowSelectGiven)
                => KeySet(selectedKeys') # KeySet(selectedKeys)
           /\ onRowSelectGiven => Len(onRowSelectCalls') = 1]_vars

\* C8 amended: the selection is controlled whenever the caller passes
\* selectedRowKeys, with or without a callback: then a row toggle or
\* select-all leaves the displayed selection as passed; otherwise the table
\* owns the selection and the event changes it; a given callback is called
\* once on every such event.
C8_ControlledByKeys ==
    [][(ev'.op \in SelectionEvent /\ selectable)
        => /\ ~selectedRowKeys.given => KeySet(selectedKeys') # KeySet(selectedKeys)
           /\ selectedRowKeys.given => selectedKeys' = selectedRowKeys.keys
           /\ onRowSelectGiven => Len(onRowSelectCalls') = 1]_vars

\* a row was toggled on a table given selectedRowKeys but no callback
C8_Witness ==
    /\ ev.op = "toggleRow"
    /\ selectable
    /\ selectedRowKeys.given /\ ~onRowSelectGiven
    /\ ev.arg \notin KeySet(selectedKeys)

\* a row was toggled on a table that owns its selection and has a callback
C8_WitnessOwned ==
    /\ ev.op = "toggleRow"
    /\ selectable
    /\ ~selectedRowKeys.given /\ onRowSelectGiven
    /\ ev.arg \in KeySet(selectedKeys)
    /\ Len(onRowSelectCalls) = 1

-----------------------------------------------------------------------------
(* Render modes *)

\* C9: the table renders loading when the loading flag is set, whatever the
\* data; empty when it is not loading and data has no rows; populated
\* otherwise.
C9_RenderModes ==
    /\ loading => RenderMode = "loading"
    /\ (~loading /\ Len(data) = 0) => RenderMode = "empty"
    /\ (~loading /\ Len(data) > 0) => RenderMode = "populated"

\* the loading flag was set on a table whose data has rows
C9_Witness ==
    /\ ev.op = "setLoading"
    /\ loading
    /\ Len(data) > 0

\* the loading flag was set on a table whose data has no rows
C9_WitnessEmpty ==
    /\ ev.op = "setLoading"
    /\ loading
    /\ Len(data) = 0

====
